---- MODULE Spec2Model ----
(***************************************************************************)
(* Crawl-extract-persist pipeline of the scraper:                          *)
(*   notebooks/utils/indeed.py  ProductExtractor, AmazonScraper            *)
(*   notebooks/utils/common.py  soup_maker, load_and_scroll, pagination,   *)
(*                              save_as and its writers, post_with_retry   *)
(*                                                                         *)
(* Python strings are sequences of tokens (a token is one character or an  *)
(* atomic chunk of characters), so that strip() and concatenation are      *)
(* computed.  An optional string is a record: Str(s) or None.              *)
(***************************************************************************)
EXTENDS Integers, Sequences, FiniteSets, TLC

(* ------------------------------ bounds --------------------------------- *)
\* number of result pages the site serves
NPages == 2
\* largest max_pages argument given to scrape_all_pages
MaxPagesArg == 2
\* largest max_retries argument given to post_with_retry
MaxRetriesArg == 3
\* largest initial delay argument given to post_with_retry
MaxDelayArg == 2
\* largest number of listing items given to ProductExtractor.extract
MaxItems == 2
\* largest number of save_to_sqlite runs on the one database
MaxRuns == 3
\* largest max_scrolls argument of scroll_and_wait
MaxScrollsArg == 3
\* largest document.body.scrollHeight the page reports
MaxHeight == 3

(* --------------------------- python values ----------------------------- *)
None == [kind |-> "None", v |-> <<>>]
Str(s) == [kind |-> "str", v |-> s]
Truthy_NotNone(x) == x.kind = "str"
\* Python truthiness of an optional string
Truthy(x) == x.kind = "str" /\ x.v # <<>>

RECURSIVE LStrip(_)
LStrip(s) == IF s # <<>> /\ Head(s) = " " THEN LStrip(Tail(s)) ELSE s
RECURSIVE RStrip(_)
RStrip(s) ==
  IF s # <<>> /\ s[Len(s)] = " " THEN RStrip(SubSeq(s, 1, Len(s) - 1)) ELSE s
\* str.strip()
Strip(s) == RStrip(LStrip(s))

(* ------------------------------ documents ------------------------------ *)
\* a sub-element of a listing item or of a page: absent, or present with
\* its text and (optionally) the one attribute the code reads from it
NoNode == [present |-> FALSE, text |-> <<>>, hasattr |-> FALSE, attr |-> <<>>]
TextNode(t) == [present |-> TRUE, text |-> t, hasattr |-> FALSE, attr |-> <<>>]
AttrNode(a) == [present |-> TRUE, text |-> <<>>, hasattr |-> TRUE, attr |-> a]
BareNode == [present |-> TRUE, text |-> <<>>, hasattr |-> FALSE, attr |-> <<>>]

Item(h2, img, a) == [h2 |-> h2, img |-> img, a |-> a]

ItemA == Item(TextNode(<<" ", "A", " ">>), AttrNode(<<"a.png">>), AttrNode(<<"/dp/A">>))
ItemB == Item(TextNode(<<"B">>), NoNode, NoNode)
ItemC == Item(TextNode(<<"C">>), BareNode, AttrNode(<<"/dp/C">>))
ItemBlankTitle == Item(TextNode(<<" ">>), AttrNode(<<"x.png">>), AttrNode(<<"/dp/X">>))
ItemNoTitle == Item(NoNode, AttrNode(<<"y.png">>), AttrNode(<<"/dp/Y">>))

\* the listing bodies a result page may carry
PageBodies ==
  { <<>>, <<ItemA>>, <<ItemB, ItemNoTitle, ItemC>>, <<ItemBlankTitle, ItemB>> }

\* the "next" anchor of a page: absent, present without href, with an empty
\* href, or with the href of the following page (the last page links back
\* to the first, so that next links may form a cycle)
NextLinks(p) ==
  { NoNode, BareNode, AttrNode(<<>>),
    AttrNode(<<"/s?page=", ToString(IF p < NPages THEN p + 1 ELSE 1)>>) }

Pages == 1..NPages
\* document 0 is the empty document (what lxml builds from "")
EmptyDoc == 0
\* soup_maker's None
NoneDoc == 0 - 1
Docs == [items : PageBodies, next : UNION {NextLinks(p) : p \in Pages}]

VARIABLES
  \* ---- the site and the rendering session (Renderer Adapter)
  site,        \* page -> document served for it
  session,     \* document the session currently shows (driver.page_source)
  \* ---- AmazonScraper.scrape_all_pages
  pc,          \* "start", "loop", "paginate", "navigate", "done", "raised"
  max_pages,
  soup,        \* local soup: a document id or NoneDoc
  extractor,   \* amazon_extractor.soup: the document bound at construction
  page,
  results,
  next_page_url,
  firstNav,    \* outcome of the initial navigation
  navs,        \* URLs given to driver.get, in order
  iters,       \* document held by local soup in each loop iteration
  events,      \* log of session calls: get / stabilize / read
  \* ---- post_with_retry
  p_pc,        \* "idle", "loop", "returned", "raised"
  max_retries,
  delay0,      \* the delay argument as passed
  delay,       \* local delay
  backoff,
  attempt,
  sends,       \* outcome of each requests.post, in order
  waits,       \* duration of each time.sleep, in order
  ret,         \* "none", "True", "False"
  \* ---- save_as
  s_pc,        \* "idle", "call", "posting", "done"
  items,
  file_name,
  post_api_url,
  writes,      \* writer invocations, in order
  \* ---- ProductExtractor.extract as a function of the listing items
  x_pc,        \* "idle", "call", "done"
  x_items,     \* the items list_items() finds
  x_out,       \* the list extract() returns
  \* ---- scroll_and_wait
  sc_pc,       \* "idle", "start", "loop", "after", "returned", "raised"
  max_scrolls,
  page_heights,\* scrollHeight at entry, then after each scroll-to-bottom
  last_height,
  sc_i,        \* loop variable i; -1 while it is unbound
  scrolls,     \* scroll-to-bottom commands issued
  settles,     \* time.sleep(wait_time) calls
  sc_exc,      \* what scroll_and_wait raised, "none" if nothing
  \* ---- save_to_sqlite, run after run on one database and table
  db,          \* the table: whether it exists, its columns, its rows
  q_runs       \* the runs so far: the batch given and whether it committed

crawlVars ==
  <<site, session, pc, max_pages, soup, extractor, page, results,
    next_page_url, firstNav, navs, iters, events>>
postVars ==
  <<p_pc, max_retries, delay0, delay, backoff, attempt, sends, waits, ret>>
saveVars == <<s_pc, items, file_name, post_api_url, writes>>
extractVars == <<x_pc, x_items, x_out>>
scrollVars ==
  <<sc_pc, max_scrolls, page_heights, last_height, sc_i, scrolls, settles, sc_exc>>
sqliteVars == <<db, q_runs>>
\* the state of the functions checked on their own
auxVars == <<extractVars, scrollVars, sqliteVars>>

vars == <<crawlVars, postVars, saveVars, auxVars>>

DocOf(d) == IF d = EmptyDoc THEN [items |-> <<>>, next |-> NoNode] ELSE site[d]

(* --------------------------- ProductExtractor -------------------------- *)
\* AmazonScraper.url, the base_url given to the extractor and to pagination
BaseUrl == <<"https://www.amazon.com">>

\* item.find(selector): the sub-element the selector names
Find(item, selector) ==
  CASE selector = "h2" -> item.h2
    [] selector = "img" -> item.img
    [] selector = "a" -> item.a

\* extract_text: `element = item.find(selector) or ""`; reading .text or
\* .get of the "" fallback raises AttributeError, which yields "";
\* Tag.get of an attribute the element lacks is None
extract_text(item, selector, attr) ==
  LET element == Find(item, selector)
  IN  IF ~element.present THEN Str(<<>>)
      ELSE IF attr # "" THEN (IF element.hasattr THEN Str(element.attr) ELSE None)
      ELSE Str(Strip(element.text))

FieldSelector(field_type) ==
  CASE field_type = "title" -> "h2"
    [] field_type = "image" -> "img"
    [] field_type = "link" -> "a"
    [] OTHER -> ""

FieldAttr(field_type) ==
  CASE field_type = "image" -> "src"
    [] field_type = "link" -> "href"
    [] OTHER -> ""

extract_field(item, field_type, base_url) ==
  LET selector == FieldSelector(field_type)
      attr == FieldAttr(field_type)
  IN  IF selector = "" THEN Str(<<>>)
      ELSE LET extracted == extract_text(item, selector, attr)
           IN  IF field_type = "link" /\ Truthy(extracted)
                 THEN Str(base_url \o extracted.v)
                 ELSE extracted

RECURSIVE ExtractItems(_, _)
ExtractItems(list_items, base_url) ==
  IF list_items = <<>> THEN <<>>
  ELSE LET item == Head(list_items)
           title == extract_field(item, "title", base_url)
           rest == ExtractItems(Tail(list_items), base_url)
       IN  IF ~Truthy(title) THEN rest
           ELSE << [Title |-> title,
                    Image |-> extract_field(item, "image", base_url),
                    Link |-> extract_field(item, "link", base_url)] >> \o rest

\* ProductExtractor.extract on the document the extractor was built with
extract(d, base_url) ==
  IF d = NoneDoc THEN <<>> ELSE ExtractItems(DocOf(d).items, base_url)

(* ------------------------------ pagination ----------------------------- *)
\* urljoin(base_url, href) for the root-relative hrefs of the model's pages,
\* against a base that has no path
urljoin(base_url, href) == base_url \o href

pagination_NoHrefCheck(d, base_url) ==
  IF d = NoneDoc THEN None
  ELSE LET next_page == DocOf(d).next
       IN  IF ~next_page.present THEN None
           ELSE Str(urljoin(base_url, next_page.attr))
\* common.pagination: None when the anchor or its href is missing or empty
pagination(d, base_url) ==
  IF d = NoneDoc THEN None
  ELSE LET next_page == DocOf(d).next
       IN  IF ~next_page.present \/ ~next_page.hasattr \/ next_page.attr = <<>>
             THEN None
             ELSE Str(urljoin(base_url, next_page.attr))

(* ------------------------------ the session ---------------------------- *)
Keyword == "laptop"
\* get_search_url
get_search_url(keyword) == BaseUrl \o <<"/s?k=", keyword>>

\* the page the site serves for a URL
PageAt(url) ==
  IF url[2] = "/s?k=" THEN 1 ELSE CHOOSE p \in Pages : ToString(p) = url[3]

\* outcomes of load_and_scroll followed by driver.page_source:
\*   exc       what loader raised (caught and logged by load_and_scroll)
\*   landed    whether the session shows the target page afterwards
\*   readable  whether driver.page_source returns (else it raises, and
\*             scrape_search_results returns "")
LoadOutcomes ==
  { [exc |-> "none", landed |-> TRUE, readable |-> TRUE] }
  \cup [exc : {"TimeoutException"}, landed : BOOLEAN, readable : {TRUE}]
  \cup [exc : {"WebDriverException"}, landed : BOOLEAN, readable : BOOLEAN]

\* soup_maker: the document, or None when lxml is not available
soup_maker(response, featureFound) == IF featureFound THEN response ELSE NoneDoc

(* ------------------------- initial states ------------------------------ *)
CrawlIdle ==
  /\ site = [p \in Pages |-> [items |-> <<>>, next |-> NoNode]]
  /\ session = EmptyDoc
  /\ pc = "idle"
  /\ max_pages = 0
  /\ soup = NoneDoc
  /\ extractor = NoneDoc
  /\ page = 0
  /\ results = <<>>
  /\ next_page_url = None
  /\ firstNav = "none"
  /\ navs = <<>>
  /\ iters = <<>>
  /\ events = <<>>

PostIdle ==
  /\ p_pc = "idle"
  /\ max_retries = 0
  /\ delay0 = 0
  /\ delay = 0
  /\ backoff = FALSE
  /\ attempt = 0
  /\ sends = <<>>
  /\ waits = <<>>
  /\ ret = "none"

SaveIdle ==
  /\ s_pc = "idle"
  /\ items = <<>>
  /\ file_name = None
  /\ post_api_url = None
  /\ writes = <<>>

ExtractIdle ==
  /\ x_pc = "idle"
  /\ x_items = <<>>
  /\ x_out = <<>>

\* the loop variable i of scroll_and_wait before the for statement binds it
Unbound == 0 - 1

ScrollIdle ==
  /\ sc_pc = "idle"
  /\ max_scrolls = 0
  /\ page_heights = <<>>
  /\ last_height = 0
  /\ sc_i = Unbound
  /\ scrolls = 0
  /\ settles = 0
  /\ sc_exc = "none"

SqliteIdle ==
  /\ db = [exists |-> FALSE, columns |-> <<>>, rows |-> <<>>]
  /\ q_runs = <<>>

\* a call scrape_all_pages(keyword, max_pages) on a session that is fresh
\* (empty document) or still shows a page of an earlier crawl
CrawlInit ==
  /\ site \in { f \in [Pages -> Docs] : \A p \in Pages : f[p].next \in NextLinks(p) }
  /\ session \in {EmptyDoc} \cup Pages
  /\ pc = "start"
  /\ max_pages \in 0..MaxPagesArg
  /\ soup = NoneDoc
  /\ extractor = NoneDoc
  /\ page = 0
  /\ results = <<>>
  /\ next_page_url = None
  /\ firstNav = "none"
  /\ navs = <<>>
  /\ iters = <<>>
  /\ events = <<>>

(* -------------------- AmazonScraper.scrape_all_pages ------------------- *)
\* lines 116-120: scrape_search_results (load_and_scroll, page_source),
\* soup_maker, page = 0, ProductExtractor(soup, self.url)
ScrapeStart ==
  /\ pc = "start"
  /\ \E o \in LoadOutcomes, featureFound \in BOOLEAN :
       LET url == get_search_url(Keyword)
           shown == IF o.landed THEN PageAt(url) ELSE session
           response == IF o.readable THEN shown ELSE EmptyDoc
           made == soup_maker(response, featureFound)
       IN  /\ session' = shown
           /\ firstNav' = o.exc
           /\ navs' = Append(navs, url)
           /\ events' = events \o <<"get">>
                          \o (IF o.exc = "none" THEN <<"stabilize">> ELSE <<>>)
                          \o (IF o.readable THEN <<"read">> ELSE <<>>)
           /\ soup' = made
           /\ extractor' = made
  /\ page' = 0
  /\ results' = <<>>
  /\ pc' = "loop"
  /\ UNCHANGED <<site, max_pages, next_page_url, iters>>
  /\ UNCHANGED <<postVars, saveVars, auxVars>>

LoopTest_NoSoupCheck(s, p, cap) == p < cap
LoopTest_OffByOne(s, p, cap) == s # NoneDoc /\ p <= cap
\* line 122: while soup and page < max_pages (a BeautifulSoup document is
\* always truthy, None is not)
LoopTest(s, p, cap) == s # NoneDoc /\ p < cap

\* line 122: the loop test fails; line 138: return results
LoopExit ==
  /\ pc = "loop"
  /\ ~LoopTest(soup, page, max_pages)
  /\ pc' = "done"
  /\ UNCHANGED <<site, session, max_pages, soup, extractor, page, results,
                 next_page_url, firstNav, navs, iters, events>>
  /\ UNCHANGED <<postVars, saveVars, auxVars>>

\* lines 122-126: the loop test holds; data = amazon_extractor.extract()
ExtractPage ==
  /\ pc = "loop"
  /\ LoopTest(soup, page, max_pages)
  /\ results' = results \o extract(extractor, BaseUrl)
  /\ iters' = Append(iters, soup)
  /\ pc' = "paginate"
  /\ UNCHANGED <<site, session, max_pages, soup, extractor, page,
                 next_page_url, firstNav, navs, events>>
  /\ UNCHANGED <<postVars, saveVars, auxVars>>

PaginationDoc_FirstSoup(current, first) == first
\* line 128: pagination is given the loop's local soup, which line 135
\* rebinds on every pass (not the soup the extractor was built with)
PaginationDoc(current, first) == current

\* lines 128-131: next_page_url = pagination(soup, self.url); break on None
Paginate ==
  /\ pc = "paginate"
  /\ next_page_url' = pagination(PaginationDoc(soup, extractor), BaseUrl)
  /\ pc' = IF Truthy(next_page_url') THEN "navigate" ELSE "done"
  /\ UNCHANGED <<site, session, max_pages, soup, extractor, page, results,
                 firstNav, navs, iters, events>>
  /\ UNCHANGED <<postVars, saveVars, auxVars>>

\* lines 133-136: driver.get(next_page_url), soup_maker(page_source), page += 1;
\* outside any try, so a failing get or page_source leaves the function
NavigateNext ==
  /\ pc = "navigate"
  /\ navs' = Append(navs, next_page_url.v)
  /\ \/ \E featureFound \in BOOLEAN :
          /\ session' = PageAt(next_page_url.v)
          /\ soup' = soup_maker(session', featureFound)
          /\ events' = events \o <<"get", "read">>
          /\ page' = page + 1
          /\ pc' = "loop"
     \/ \E landed \in BOOLEAN :
          /\ session' = IF landed THEN PageAt(next_page_url.v) ELSE session
          /\ events' = events \o <<"get">>
          /\ pc' = "raised"
          /\ UNCHANGED <<soup, page>>
  /\ UNCHANGED <<site, max_pages, extractor, results, next_page_url, firstNav, iters>>
  /\ UNCHANGED <<postVars, saveVars, auxVars>>

CrawlNext == ScrapeStart \/ LoopExit \/ ExtractPage \/ Paginate \/ NavigateNext

InitCrawl ==
  CrawlInit /\ PostIdle /\ SaveIdle /\ ExtractIdle /\ ScrollIdle /\ SqliteIdle

SpecCrawl == InitCrawl /\ [][CrawlNext]_vars

\* the page graphs: every shape of next link on every page, the listing
\* body being the same on all pages
InitCrawlGraph ==
  /\ InitCrawl
  /\ \A p \in Pages : site[p].items = <<ItemA>>

\* scrape_all_pages is one sequential call: while a statement of it is
\* ready to run, the interpreter runs it
SpecCrawlFair == InitCrawlGraph /\ [][CrawlNext]_vars /\ WF_vars(CrawlNext)

(* ----------------------------- post_with_retry ------------------------- *)
\* defaults of post_with_retry's parameters
DefaultMaxRetries == 3
DefaultDelay == 2

\* what one requests.post does: a response with a status code, or an
\* exception (Timeout and ConnectionError are RequestExceptions with their
\* own handlers; "TypeError" stands for an error that is no RequestException)
SendOutcomes ==
  [status : {200, 201, 404, 503}, exc : {"none"}]
  \cup [status : {0}, exc : {"Timeout", "ConnectionError", "RequestException", "TypeError"}]

IsSuccess_Only200(o) == o.exc = "none" /\ o.status = 200
\* line 298: res.status_code in [200, 201]
IsSuccess(o) == o.exc = "none" /\ o.status \in {200, 201}

\* lines 309-317: the except clauses
IsCaught(o) == o.exc \in {"Timeout", "ConnectionError", "RequestException"}

AttemptRange_AtLeastOnce(n) == 1..(IF n < 1 THEN 1 ELSE n)
AttemptRange_OffByOne(n) == 1..(n - 1)
\* line 292: range(1, max_retries + 1)
AttemptRange(n) == 1..n

BackoffDelay_Linear(d, b) == IF b THEN d + 2 ELSE d
\* lines 320-321: the delay slept after a failed attempt
BackoffDelay(d, b) == IF b THEN d * 2 ELSE d

\* a direct call post_with_retry(url, data, max_retries, delay, backoff=...)
PostInit ==
  /\ p_pc = "loop"
  /\ max_retries \in (0 - 1)..MaxRetriesArg
  /\ delay0 \in 0..MaxDelayArg
  /\ delay = delay0
  /\ backoff \in BOOLEAN
  /\ attempt = 1
  /\ sends = <<>>
  /\ waits = <<>>
  /\ ret = "none"

\* lines 292-322: one pass of the loop body
PostAttempt ==
  /\ p_pc = "loop"
  /\ attempt \in AttemptRange(max_retries)
  /\ \E o \in SendOutcomes :
       /\ sends' = Append(sends, o)
       /\ IF IsSuccess(o)
            THEN /\ ret' = "True"
                 /\ p_pc' = "returned"
                 /\ UNCHANGED <<delay, waits, attempt>>
            ELSE IF o.exc = "none" \/ IsCaught(o)
            THEN /\ delay' = BackoffDelay(delay, backoff)
                 /\ waits' = Append(waits, delay')
                 /\ attempt' = attempt + 1
                 /\ UNCHANGED <<ret, p_pc>>
            ELSE /\ p_pc' = "raised"
                 /\ UNCHANGED <<ret, delay, waits, attempt>>
  /\ UNCHANGED <<max_retries, delay0, backoff>>
  /\ UNCHANGED <<crawlVars, saveVars, auxVars>>

\* lines 324-325: the range is exhausted; return False
PostExhausted ==
  /\ p_pc = "loop"
  /\ attempt \notin AttemptRange(max_retries)
  /\ ret' = "False"
  /\ p_pc' = "returned"
  /\ UNCHANGED <<max_retries, delay0, delay, backoff, attempt, sends, waits>>
  /\ UNCHANGED <<crawlVars, saveVars, auxVars>>

PostNext == PostAttempt \/ PostExhausted

InitPost ==
  CrawlIdle /\ PostInit /\ SaveIdle /\ ExtractIdle /\ ScrollIdle /\ SqliteIdle

SpecPost == InitPost /\ [][PostNext]_vars

(* -------------------------------- save_as ------------------------------ *)
\* str.lower() on the tokens file names are made of
LowerTok(t) ==
  CASE t = "CSV" -> "csv"
    [] t = "Json" -> "json"
    [] t = "OUT" -> "out"
    [] OTHER -> t
Lower(s) == [i \in DOMAIN s |-> LowerTok(s[i])]

\* str.rfind of a one-character token, 1-based; 0 when it does not occur
RFind(s, t) ==
  IF \E i \in DOMAIN s : s[i] = t
    THEN CHOOSE i \in DOMAIN s : s[i] = t /\ \A j \in DOMAIN s : s[j] = t => j <= i
    ELSE 0

\* os.path.splitext(p)[1]: from the last dot of the last path component,
\* unless that component has only leading dots before it
SplitExt(p) ==
  LET sepIndex == RFind(p, "/")
      dotIndex == RFind(p, ".")
  IN  IF dotIndex > sepIndex
           /\ \E i \in (sepIndex + 1)..(dotIndex - 1) : p[i] # "."
        THEN SubSeq(p, dotIndex, Len(p))
        ELSE <<>>

file_ext_CaseSensitive(name) ==
  LET ext == SplitExt(name) IN IF ext = <<>> THEN <<>> ELSE Tail(ext)
\* line 232: os.path.splitext(file_name)[1][1:].lower()
file_ext(name) ==
  LET ext == SplitExt(name)
  IN  Lower(IF ext = <<>> THEN <<>> ELSE Tail(ext))

\* lines 234-243: the writer save_data_to_file selects, "" for none
WriterFor(ext) ==
  CASE ext = <<"csv">> -> "save_to_csv"
    [] ext = <<"json">> -> "save_to_json"
    [] ext \in {<<"xlsx">>, <<"xls">>} -> "save_to_excel"
    [] ext = <<"sqlite">> -> "save_to_sqlite"
    [] OTHER -> ""

FileNames ==
  { <<"out", ".", "csv">>, <<"OUT", ".", "CSV">>, <<"d", ".", "Json">>,
    <<"b", ".", "xlsx">>, <<"b", ".", "xls">>, <<"db", ".", "sqlite">>,
    <<"notes", ".", "txt">>, <<"noext">>, <<".", "csv">>,
    <<"a", ".", "csv", "/", "f">>, <<"a", ".", "tar", ".", "json">> }

RecordA == [Title |-> Str(<<"A">>), Image |-> Str(<<"a.png">>), Link |-> Str(<<"/dp/A">>)]
RecordB == [Title |-> Str(<<"B">>), Image |-> Str(<<>>), Link |-> Str(<<>>)]
Batches == { <<>>, <<RecordA>>, <<RecordA, RecordB>> }

\* a call save_as(items, file_name, post_api_url)
SaveInit ==
  /\ s_pc = "call"
  /\ items \in Batches
  /\ file_name \in {None, Str(<<>>)} \cup {Str(f) : f \in FileNames}
  /\ post_api_url \in {None, Str(<<>>), Str(<<"http://127.0.0.1:5000/api/products/">>)}
  /\ writes = <<>>

save_data_to_file_DefaultCsv(name, written) ==
  LET writer == WriterFor(file_ext(name))
  IN  << [writer |-> IF writer = "" THEN "save_to_csv" ELSE writer,
          file |-> name, written |-> written] >>

\* save_data_to_file: the selected writer runs once and either writes the
\* file or fails (each writer catches and logs its own exception)
save_data_to_file(name, written) ==
  LET writer == WriterFor(file_ext(name))
  IN  IF writer = "" THEN <<>>
      ELSE << [writer |-> writer, file |-> name, written |-> written] >>

IsEmptyBatch_Missing(batch) == FALSE
\* line 199: `not items`
IsEmptyBatch(batch) == batch = <<>>

\* lines 199-212, with post_data_to_api's call of post_with_retry(url, items)
SaveAs ==
  /\ s_pc = "call"
  /\ IF IsEmptyBatch(items)
       THEN /\ s_pc' = "done"
            /\ UNCHANGED <<writes, postVars>>
       ELSE IF Truthy(post_api_url)
       THEN /\ s_pc' = "posting"
            /\ p_pc' = "loop"
            /\ max_retries' = DefaultMaxRetries
            /\ delay0' = DefaultDelay
            /\ delay' = DefaultDelay
            /\ backoff' = FALSE
            /\ attempt' = 1
            /\ UNCHANGED <<writes, sends, waits, ret>>
       ELSE IF Truthy(file_name)
       THEN /\ \E written \in BOOLEAN :
                 writes' = writes \o save_data_to_file(file_name.v, written)
            /\ s_pc' = "done"
            /\ UNCHANGED postVars
       ELSE /\ s_pc' = "done"
            /\ UNCHANGED <<writes, postVars>>
  /\ UNCHANGED <<items, file_name, post_api_url>>
  /\ UNCHANGED <<crawlVars, auxVars>>

PostDataToApiReturn_FallThrough ==
  /\ s_pc = "posting"
  /\ p_pc \in {"returned", "raised"}
  /\ s_pc' = "done"
  /\ \E written \in BOOLEAN :
       writes' = IF Truthy(file_name)
                   THEN writes \o save_data_to_file(file_name.v, written)
                   ELSE writes
  /\ UNCHANGED <<items, file_name, post_api_url>>
  /\ UNCHANGED <<crawlVars, postVars, auxVars>>
\* lines 217-223 and 206: post_with_retry has returned or raised (caught);
\* post_data_to_api logs the outcome and save_as returns
PostDataToApiReturn ==
  /\ s_pc = "posting"
  /\ p_pc \in {"returned", "raised"}
  /\ s_pc' = "done"
  /\ UNCHANGED <<items, file_name, post_api_url, writes>>
  /\ UNCHANGED <<crawlVars, postVars, auxVars>>

SaveNext == SaveAs \/ PostAttempt \/ PostExhausted \/ PostDataToApiReturn

InitSave ==
  CrawlIdle /\ PostIdle /\ SaveInit /\ ExtractIdle /\ ScrollIdle /\ SqliteIdle

SpecSave == InitSave /\ [][SaveNext]_vars

(* ----------------------------- scroll_and_wait ------------------------ *)
\* scroll_and_wait(driver, max_scrolls = n) on a page whose scrollHeight is
\* page_heights[1] at entry and page_heights[j + 1] after the j-th
\* scroll-to-bottom command
ScrollInit ==
  /\ sc_pc = "start"
  /\ max_scrolls \in 0..MaxScrollsArg
  /\ page_heights \in [1..(MaxScrollsArg + 1) -> 1..MaxHeight]
  /\ last_height = 0
  /\ sc_i = Unbound
  /\ scrolls = 0
  /\ settles = 0
  /\ sc_exc = "none"

\* range(max_scrolls): the value the for statement binds next
NextIndex(i) == IF i = Unbound THEN 0 ELSE i + 1

HeightUnchanged_Shrunk(new_height, last) == new_height < last
\* line 84: if new_height == last_height
HeightUnchanged(new_height, last) == new_height = last

\* line 73: last_height = get_scroll_height(driver); a WebDriverException of
\* the session leaves the function
ScrollStart ==
  /\ sc_pc = "start"
  /\ \/ /\ last_height' = page_heights[1]
        /\ sc_pc' = "loop"
        /\ UNCHANGED sc_exc
     \/ /\ sc_pc' = "raised"
        /\ sc_exc' = "WebDriverException"
        /\ UNCHANGED last_height
  /\ UNCHANGED <<max_scrolls, page_heights, sc_i, scrolls, settles>>
  /\ UNCHANGED <<extractVars, sqliteVars>>
  /\ UNCHANGED <<crawlVars, postVars, saveVars>>

\* lines 75-88: one pass of the for loop: scroll to the bottom, pause, read
\* the new height, break when it equals last_height; either script call
\* may raise WebDriverException
ScrollPass ==
  /\ sc_pc = "loop"
  /\ NextIndex(sc_i) < max_scrolls
  /\ sc_i' = NextIndex(sc_i)
  /\ \/ LET new_height == page_heights[scrolls + 2]
        IN  /\ scrolls' = scrolls + 1
            /\ IF HeightUnchanged(new_height, last_height)
                 THEN sc_pc' = "after" /\ UNCHANGED last_height
                 ELSE sc_pc' = "loop" /\ last_height' = new_height
            /\ UNCHANGED sc_exc
     \/ \E scrolled \in BOOLEAN :
          /\ scrolls' = IF scrolled THEN scrolls + 1 ELSE scrolls
          /\ sc_pc' = "raised"
          /\ sc_exc' = "WebDriverException"
          /\ UNCHANGED last_height
  /\ UNCHANGED <<max_scrolls, page_heights, settles>>
  /\ UNCHANGED <<extractVars, sqliteVars>>
  /\ UNCHANGED <<crawlVars, postVars, saveVars>>

\* line 75: range(max_scrolls) is used up
ScrollLoopEnd ==
  /\ sc_pc = "loop"
  /\ ~(NextIndex(sc_i) < max_scrolls)
  /\ sc_pc' = "after"
  /\ UNCHANGED <<max_scrolls, page_heights, last_height, sc_i, scrolls,
                 settles, sc_exc>>
  /\ UNCHANGED <<extractVars, sqliteVars>>
  /\ UNCHANGED <<crawlVars, postVars, saveVars>>

\* lines 90-91: the log line reads i (UnboundLocalError when the loop body
\* never ran), then time.sleep(wait_time), then the function returns
ScrollSettle ==
  /\ sc_pc = "after"
  /\ IF sc_i = Unbound
       THEN /\ sc_pc' = "raised"
            /\ sc_exc' = "UnboundLocalError"
            /\ UNCHANGED settles
       ELSE /\ settles' = settles + 1
            /\ sc_pc' = "returned"
            /\ UNCHANGED sc_exc
  /\ UNCHANGED <<max_scrolls, page_heights, last_height, sc_i, scrolls>>
  /\ UNCHANGED <<extractVars, sqliteVars>>
  /\ UNCHANGED <<crawlVars, postVars, saveVars>>

ScrollNext == ScrollStart \/ ScrollPass \/ ScrollLoopEnd \/ ScrollSettle

InitScroll ==
  CrawlIdle /\ PostIdle /\ SaveIdle /\ ExtractIdle /\ ScrollInit /\ SqliteIdle

SpecScroll == InitScroll /\ [][ScrollNext]_vars

(* ----------------------------- save_to_sqlite ------------------------- *)
\* item.keys() and item.values(): a product dict is built in the order
\* Title, Image, Link (indeed.py lines 79-83)
Keys(item) == <<"Title", "Image", "Link">>
Values(item) == <<item.Title, item.Image, item.Link>>

CreateTable_Recreate(table, columns) ==
  [exists |-> TRUE, columns |-> columns, rows |-> <<>>]
\* lines 168-170: CREATE TABLE IF NOT EXISTS table_name (<key> TEXT, ...)
CreateTable(table, columns) ==
  IF table.exists THEN table
  ELSE [exists |-> TRUE, columns |-> columns, rows |-> <<>>]

\* lines 173-177: every INSERT ... VALUES (?, ...) has as many values as the
\* table has columns (sqlite refuses the statement otherwise)
InsertsFit(table, batch) ==
  \A i \in DOMAIN batch : Len(Values(batch[i])) = Len(table.columns)

\* how the database calls of one run end: all succeed and the run commits,
\* or a DatabaseError is raised before or after the CREATE TABLE (the
\* connection's context manager then rolls the inserts back; the error is
\* caught and logged)
RunOutcomes == {"commit", "error_before_create", "error_after_create"}

\* lines 153-186: the table after save_to_sqlite(batch, db_name, table_name)
save_to_sqlite(table, batch, outcome) ==
  IF batch = <<>> \/ outcome = "error_before_create" THEN table
  ELSE LET created == CreateTable(table, Keys(batch[1]))
       IN  IF outcome = "commit" /\ InsertsFit(created, batch)
             THEN [created EXCEPT !.rows = @ \o [i \in DOMAIN batch |-> Values(batch[i])]]
             ELSE created

\* whether the run inserted and committed its rows
Committed(table, batch, outcome) ==
  /\ batch # <<>>
  /\ outcome = "commit"
  /\ InsertsFit(CreateTable(table, Keys(batch[1])), batch)

\* runs on a database that does not hold the table yet
SqliteInit ==
  /\ db = [exists |-> FALSE, columns |-> <<>>, rows |-> <<>>]
  /\ q_runs = <<>>

\* one run save_to_sqlite(batch, db_name, table_name)
SaveToSqlite ==
  /\ Len(q_runs) < MaxRuns
  /\ \E batch \in Batches, outcome \in RunOutcomes :
       /\ db' = save_to_sqlite(db, batch, outcome)
       /\ q_runs' = Append(q_runs, [batch |-> batch,
                                    committed |-> Committed(db, batch, outcome)])
  /\ UNCHANGED <<extractVars, scrollVars>>
  /\ UNCHANGED <<crawlVars, postVars, saveVars>>

SqliteNext == SaveToSqlite

InitSqlite ==
  CrawlIdle /\ PostIdle /\ SaveIdle /\ ExtractIdle /\ ScrollIdle /\ SqliteInit

SpecSqlite == InitSqlite /\ [][SqliteNext]_vars

(* --------------- ProductExtractor.extract on its own ------------------- *)
TitleNodes ==
  { NoNode, TextNode(<<>>), TextNode(<<" ">>), TextNode(<<" ", "T", " ">>),
    TextNode(<<"U">>) }
ImageNodes == { NoNode, BareNode, AttrNode(<<"i.png">>) }
LinkNodes == { NoNode, BareNode, AttrNode(<<>>), AttrNode(<<"/dp/1">>) }
ItemShapes == { Item(h, i, a) : h \in TitleNodes, i \in ImageNodes, a \in LinkNodes }

SeqsUpTo(S, n) == UNION { [1..k -> S] : k \in 0..n }

\* a call extract() on a document whose listing items are x_items
ExtractInit ==
  /\ x_pc = "call"
  /\ x_items \in SeqsUpTo(ItemShapes, MaxItems)
  /\ x_out = <<>>

\* lines 65-88 on a document that is not None
ExtractCall ==
  /\ x_pc = "call"
  /\ x_out' = ExtractItems(x_items, BaseUrl)
  /\ x_pc' = "done"
  /\ UNCHANGED <<x_items, scrollVars, sqliteVars>>
  /\ UNCHANGED <<crawlVars, postVars, saveVars>>

ExtractNext == ExtractCall

InitExtract ==
  CrawlIdle /\ PostIdle /\ SaveIdle /\ ExtractInit /\ ScrollIdle /\ SqliteIdle

SpecExtract == InitExtract /\ [][ExtractNext]_vars

(* ======================== claims: the crawl ============================ *)
\* C1: with max_pages >= 1 the crawl never navigates more than max_pages
\* times (the initial search page plus the next pages); with max_pages = 1
\* there is no navigation to a second page.
C1_NavigationsWithinMaxPages == max_pages >= 1 => Len(navs) <= max_pages

RECURSIVE ConcatExtract(_)
ConcatExtract(docs) ==
  IF docs = <<>> THEN <<>>
  ELSE ExtractItems(DocOf(Head(docs)).items, BaseUrl) \o ConcatExtract(Tail(docs))

\* C2: the records returned are the concatenation, in visiting order, of the
\* extraction of each iteration's own page snapshot.
C2_ResultsFollowSnapshots == pc = "done" => results = ConcatExtract(iters)

\* C3: a failed initial navigation yields an empty record sequence.
C3_FailedFirstNavYieldsEmpty ==
  (pc = "done" /\ firstNav # "none") => results = <<>>

\* C4: no navigation failure leaves scrape_all_pages as an exception.
C4_NoExceptionEscapes == pc # "raised"

\* the page has no usable next link: no anchor, or an anchor without href
NoNextHref(d) ==
  LET a == DocOf(d).next IN ~a.present \/ ~a.hasattr \/ a.attr = <<>>

\* every item of the body has a title with visible text
AllTitled(body) ==
  \A i \in DOMAIN body :
    body[i].h2.present /\ \E j \in DOMAIN body[i].h2.text : body[i].h2.text[j] # " "

\* C10: when the current page has no next link (or one without href) the
\* pagination step ends the crawl at once, with the records accumulated so
\* far and without another navigation; a single page of N titled items and
\* no next link yields exactly N records and one navigation.
C10_StopsWhenNoNextLink ==
  /\ [][(pc = "paginate" /\ NoNextHref(soup))
          => (pc' = "done" /\ results' = results /\ navs' = navs)]_vars
  /\ []((pc = "done" /\ firstNav = "none" /\ iters # <<>>
          /\ NoNextHref(1) /\ AllTitled(site[1].items))
         => (Len(results) = Len(site[1].items) /\ Len(navs) = 1))

C10_Witness ==
  /\ pc = "done" /\ firstNav = "none" /\ iters = <<1>>
  /\ site[1].next = BareNode
  /\ site[1].items = <<ItemA>>
  /\ Len(results) = 1 /\ Len(navs) = 1

\* C16: every page whose HTML is read for parsing, the first and every later
\* one, has had scroll_and_wait run on it after its navigation and before
\* the read: each read directly follows a stabilize that directly follows
\* a get. (Stated for crawls whose first load raised nothing.)
C16_StabilizeBeforeEveryRead ==
  firstNav = "none" =>
    \A i \in DOMAIN events :
      events[i] = "read" =>
        /\ i >= 3
        /\ events[i - 1] = "stabilize"
        /\ events[i - 2] = "get"

\* C19: when soup_maker gave None for a page, the first or a later one, the
\* crawl goes straight to its return: nothing is extracted, paginated or
\* navigated for that page and the records gathered so far are returned.
C19_NoDocumentEndsCrawl ==
  [][(pc = "loop" /\ soup = NoneDoc) =>
       /\ pc' = "done"
       /\ results' = results
       /\ iters' = iters
       /\ next_page_url' = next_page_url
       /\ navs' = navs
       /\ events' = events]_vars

\* a later page gave no document after records were gathered from the first
C19_Witness ==
  /\ pc = "done"
  /\ soup = NoneDoc
  /\ page = 1
  /\ max_pages > 1
  /\ results # <<>>
  /\ Len(iters) = 1

\* one of the three stop conditions holds where the crawl stands
StopCondition ==
  \/ pc = "loop" /\ (soup = NoneDoc \/ page >= max_pages)
  \/ pc = "paginate" /\ ~Truthy(pagination(soup, BaseUrl))

\* C21: for every max_pages and every page graph, cyclic ones included, a
\* crawl whose navigations complete reaches its return after at most
\* max_pages extraction iterations, and it stops exactly when the next URL
\* is absent, the parse gave no document, or page >= max_pages.
C21_CrawlTerminates ==
  /\ <>(pc = "done" \/ pc = "raised")
  /\ [](Len(iters) <= max_pages)
  /\ [][(pc \in {"loop", "paginate"} /\ StopCondition) => pc' = "done"]_vars
  /\ [][(pc # "done" /\ pc' = "done") => StopCondition]_vars

\* a cycle of next links crawled until the page cap ended it
C21_Witness ==
  /\ pc = "done"
  /\ max_pages = 2
  /\ Len(iters) = 2
  /\ page = 2
  /\ Truthy(pagination(soup, BaseUrl))
  /\ \A p \in Pages : Truthy(pagination(p, BaseUrl))

\* C24: the URL navigated to at the end of loop iteration k is the next
\* link of the document of the page loaded most recently, the page of
\* iteration k, never of an earlier page: the navigation step goes to the
\* next link of the page the session shows, whose document the loop holds,
\* and every URL after the second is the next link of the page the URL
\* before it led to.
C24_NavigationsFollowNextLinks ==
  /\ [](pc = "navigate" =>
          /\ soup = session
          /\ iters[Len(iters)] = session
          /\ next_page_url = pagination(session, BaseUrl))
  /\ [][pc = "navigate" => navs' = Append(navs, pagination(session, BaseUrl).v)]_vars
  /\ [](\A k \in 1..(Len(navs) - 1) :
          /\ k <= Len(iters)
          /\ navs[k + 1] = pagination(iters[k], BaseUrl).v
          /\ k >= 2 => iters[k] = PageAt(navs[k]))

\* three navigations along a cycle of two pages
C24_Witness ==
  /\ Len(navs) = 3
  /\ iters = <<1, 2>>
  /\ navs[2] = pagination(1, BaseUrl).v
  /\ navs[3] = pagination(2, BaseUrl).v
  /\ navs[3] # navs[2]

(* ===================== claims: post_with_retry ========================= *)
\* a send outcome that is one of the failures the claim lists
ListedFailure(o) ==
  \/ o.exc = "none" /\ o.status \notin {200, 201}
  \/ o.exc \in {"Timeout", "ConnectionError", "RequestException"}

\* C5: when max_retries >= 1 and every send fails in a listed way, the call
\* makes exactly max_retries sends and returns False.
C5_ExactlyMaxRetriesSends ==
  (max_retries >= 1 /\ p_pc # "idle" /\ \A i \in DOMAIN sends : ListedFailure(sends[i]))
  => /\ p_pc \in {"loop", "returned"}
     /\ Len(sends) <= max_retries
     /\ p_pc = "returned" => (ret = "False" /\ Len(sends) = max_retries)

C5_Witness ==
  /\ p_pc = "returned" /\ ret = "False" /\ max_retries = 3
  /\ Len(sends) = 3
  /\ \A i \in DOMAIN sends : sends[i].exc = "none" /\ sends[i].status = 503

\* C6: a 200/201 response on attempt k ends the call at once: it has
\* returned True after exactly k sends and k - 1 waits.
C6_StopsOnFirstSuccess ==
  \A k \in DOMAIN sends :
    (sends[k].exc = "none" /\ sends[k].status \in {200, 201})
    => /\ k = Len(sends) /\ k <= max_retries
       /\ p_pc = "returned" /\ ret = "True"
       /\ Len(waits) = k - 1

C6_Witness ==
  /\ p_pc = "returned" /\ ret = "True"
  /\ Len(sends) = 2 /\ sends[2].status = 201 /\ Len(waits) = 1

\* C7: the wait after the j-th failed attempt is delay * 2^j with backoff
\* and the initial delay without; with backoff and delay = 2 the waits are
\* 4, then 8.
C7_WaitAfterFailedAttempt ==
  \A j \in DOMAIN waits :
    /\ j <= Len(sends) /\ ListedFailure(sends[j])
    /\ waits[j] = IF backoff THEN delay0 * 2^j ELSE delay0

C7_Witness ==
  /\ backoff /\ delay0 = 2
  /\ Len(waits) >= 2 /\ waits[1] = 4 /\ waits[2] = 8

\* C12: no exception crosses the post_with_retry boundary: whatever a send
\* raises (timeout, connection error, request failure, or any other error)
\* counts as a retry trigger and the call returns True or False.
C12_NoExceptionCrosses == p_pc # "raised"

\* a send that did not get a 200/201 response
FailedSend(o) == ~(o.exc = "none" /\ o.status \in {200, 201})

\* C20: every failed attempt, the last one included, is followed by exactly
\* one wait, so the waits of a call are as many as its failed attempts.
C20_OneWaitPerFailedAttempt ==
  Len(waits) = Cardinality({ i \in DOMAIN sends : FailedSend(sends[i]) })

(* ========================== claims: save_as ============================ *)
\* C8: save_as with an empty record sequence writes no file and makes no
\* POST, whatever file path and API URL are configured.
C8_EmptyBatchNoSink ==
  items = <<>> => (writes = <<>> /\ sends = <<>> /\ p_pc = "idle")

C8_Witness ==
  /\ s_pc = "done" /\ items = <<>>
  /\ Truthy(post_api_url) /\ Truthy(file_name)

\* C9: with an API endpoint configured and records to save, save_as only
\* runs the publisher: no file writer is invoked, also when a file path is
\* set and whether the publish succeeds or fails.
C9_EndpointExcludesFile ==
  (Truthy(post_api_url) /\ items # <<>>)
  => /\ writes = <<>>
     /\ s_pc = "done" => p_pc \in {"returned", "raised"}

C9_Witness ==
  /\ s_pc = "done" /\ items # <<>> /\ Truthy(post_api_url)
  /\ Truthy(file_name) /\ WriterFor(file_ext(file_name.v)) = "save_to_csv"
  /\ ret = "False" /\ Len(sends) = 3

\* the writer the extension table assigns to each file name of the model:
\* the text after the last dot of the last path component, lower-cased;
\* a leading dot (".csv") starts a hidden file's name, not an extension
ExpectedWriter(name) ==
  CASE name \in {<<"out", ".", "csv">>, <<"OUT", ".", "CSV">>} -> "save_to_csv"
    [] name \in {<<"d", ".", "Json">>, <<"a", ".", "tar", ".", "json">>} -> "save_to_json"
    [] name \in {<<"b", ".", "xlsx">>, <<"b", ".", "xls">>} -> "save_to_excel"
    [] name = <<"db", ".", "sqlite">> -> "save_to_sqlite"
    [] OTHER -> ""

\* the dispatch has a file path as its only target, and records to save
FileTargetOnly == items # <<>> /\ ~Truthy(post_api_url) /\ Truthy(file_name)

\* C13: with a file path, records and no API endpoint, save_as invokes
\* exactly the writer the lower-cased extension selects; for any other
\* extension (or none) it invokes no writer and returns without raising.
C13_WriterByExtension ==
  FileTargetOnly =>
    /\ p_pc = "idle" /\ sends = <<>>
    /\ s_pc \in {"call", "done"}
    /\ s_pc = "call" => writes = <<>>
    /\ s_pc = "done" =>
         IF ExpectedWriter(file_name.v) = ""
           THEN writes = <<>>
           ELSE /\ Len(writes) = 1
                /\ writes[1].writer = ExpectedWriter(file_name.v)
                /\ writes[1].file = file_name.v

C13_Witness ==
  /\ s_pc = "done" /\ FileTargetOnly
  /\ file_name = Str(<<"OUT", ".", "CSV">>)
  /\ Len(writes) = 1 /\ writes[1].writer = "save_to_csv"

C13_WitnessUnsupported ==
  /\ s_pc = "done" /\ FileTargetOnly
  /\ file_name = Str(<<"notes", ".", "txt">>)
  /\ writes = <<>>

PublisherInvoked == p_pc # "idle"

\* C15 (as stated): every dispatch with a non-empty record sequence invokes
\* exactly one of {one file writer, the Retrying Publisher}: never both and
\* never none.
C15_ExactlyOneSink ==
  (s_pc = "done" /\ items # <<>>)
  => \/ PublisherInvoked /\ writes = <<>>
     \/ ~PublisherInvoked /\ Len(writes) = 1

\* C15 (amended): a dispatch with a non-empty record sequence never invokes
\* both sinks and never more than one writer; it invokes the publisher alone
\* when an API endpoint is set, otherwise one writer when the file path has
\* a supported extension, and no sink at all when no target is set or the
\* extension is not supported.
C15_AtMostOneSink ==
  /\ ~(PublisherInvoked /\ writes # <<>>)
  /\ Len(writes) <= 1
  /\ (s_pc = "done" /\ items # <<>>) =>
       IF Truthy(post_api_url)
         THEN PublisherInvoked /\ writes = <<>>
       ELSE IF Truthy(file_name) /\ ExpectedWriter(file_name.v) # ""
         THEN ~PublisherInvoked /\ Len(writes) = 1
       ELSE ~PublisherInvoked /\ writes = <<>>

C15_Witness ==
  /\ s_pc = "done" /\ items # <<>>
  /\ ~Truthy(post_api_url)
  /\ file_name = Str(<<"noext">>)
  /\ ~PublisherInvoked /\ writes = <<>>

\* C23: post_with_retry called with max_retries <= 0 makes no send attempt
\* and no wait, and returns False.
C23_NoAttemptWithoutBudget ==
  max_retries <= 0 =>
    /\ sends = <<>>
    /\ waits = <<>>
    /\ p_pc \in {"idle", "loop", "returned"}
    /\ p_pc = "returned" => ret = "False"

C23_Witness ==
  /\ max_retries < 0
  /\ p_pc = "returned"
  /\ ret = "False"
  /\ sends = <<>> /\ waits = <<>>

C23_WitnessZero ==
  /\ max_retries = 0
  /\ delay0 > 0
  /\ p_pc = "returned"
  /\ ret = "False"

(* ======================= claims: scroll_and_wait ======================= *)
\* the scrolls after which the height equals the height before that scroll
UnchangedScrolls ==
  { j \in 1..(Len(page_heights) - 1) : page_heights[j + 1] = page_heights[j] }

\* min(max_scrolls, k), k the first scroll that left the height unchanged
ExpectedScrolls ==
  LET within == { j \in UnchangedScrolls : j <= max_scrolls }
  IN  IF within = {} THEN max_scrolls
      ELSE CHOOSE k \in within : \A j \in within : k <= j

\* the scroll loop is over (the function went on to line 90)
LoopOver ==
  \/ sc_pc \in {"after", "returned"}
  \/ sc_pc = "raised" /\ sc_exc = "UnboundLocalError"

\* C17: for every max_scrolls >= 0 and every sequence of page heights,
\* scroll_and_wait issues exactly min(max_scrolls, k) scroll-to-bottom
\* commands, k being the first scroll that left the height unchanged; it
\* never exceeds the budget and never scrolls past an unchanged height.
C17_ScrollsUntilUnchangedOrBudget ==
  /\ scrolls <= max_scrolls
  /\ \A k \in UnchangedScrolls : scrolls <= k
  /\ LoopOver => scrolls = ExpectedScrolls

\* the loop stopped at an unchanged height with budget left
C17_Witness ==
  /\ sc_pc = "returned"
  /\ max_scrolls = 3
  /\ scrolls = 2
  /\ page_heights[1] < page_heights[2]
  /\ page_heights[2] = page_heights[3]

\* the page grew on every scroll and the budget ended the loop
C17_WitnessBudget ==
  /\ sc_pc = "returned"
  /\ max_scrolls = 3
  /\ scrolls = 3
  /\ UnchangedScrolls = {}

\* C18: for every max_scrolls >= 0 (0 included) and every height sequence,
\* when the session does not fail, scroll_and_wait makes the settle wait
\* exactly once after the loop and then returns normally.
C18_SettlesOnceAndReturns ==
  /\ (sc_pc \in {"returned", "raised"} /\ sc_exc # "WebDriverException")
       => (sc_pc = "returned" /\ settles = 1)
  /\ settles <= 1

(* ======================= claims: save_to_sqlite ======================== *)
\* the rows of the batches of the runs that committed, run after run
RECURSIVE RowsOfRuns(_)
RowsOfRuns(runs) ==
  IF runs = <<>> THEN <<>>
  ELSE LET b == Head(runs).batch
       IN  (IF Head(runs).committed
              THEN [i \in DOMAIN b |-> <<b[i].Title, b[i].Image, b[i].Link>>]
              ELSE <<>>)
           \o RowsOfRuns(Tail(runs))

IsPrefix(a, b) == Len(a) <= Len(b) /\ SubSeq(b, 1, Len(a)) = a

\* C14: across runs of save_to_sqlite on one database and table with records
\* of one field set, the table is never dropped or recreated and its rows
\* only accumulate: it holds the rows of the batches of the runs that
\* committed, batch after batch, each in its listed order.
C14_RowsAccumulate ==
  /\ [][db.exists => (db'.exists /\ db'.columns = db.columns)]_vars
  /\ [][IsPrefix(db.rows, db'.rows)]_vars
  /\ [](db.rows = RowsOfRuns(q_runs))

C14_Witness ==
  /\ Len(q_runs) = 2
  /\ q_runs[1].committed /\ q_runs[1].batch = <<RecordA, RecordB>>
  /\ q_runs[2].committed /\ q_runs[2].batch = <<RecordA>>
  /\ db.rows = << <<RecordA.Title, RecordA.Image, RecordA.Link>>,
                  <<RecordB.Title, RecordB.Image, RecordB.Link>>,
                  <<RecordA.Title, RecordA.Image, RecordA.Link>> >>

(* ===================== claims: ProductExtractor ======================== *)
NotSpace(t) == t # " "
\* the item has a heading with visible text
HasTitle(item) == item.h2.present /\ \E j \in DOMAIN item.h2.text : item.h2.text[j] # " "
TitledIndexes(list) == { i \in DOMAIN list : HasTitle(list[i]) }

\* C11: extract yields one record per item with a non-empty title and none
\* for an item whose title is absent or empty, in item order; a titled item
\* whose image or link node is absent gets "" for that field.
C11_OneRecordPerTitledItem ==
  x_pc = "done" =>
    LET T == TitledIndexes(x_items)
    IN  /\ Len(x_out) = Cardinality(T)
        /\ \A i \in T :
             LET k == Cardinality({ j \in T : j <= i })
             IN  /\ x_out[k].Title = Str(SelectSeq(x_items[i].h2.text, NotSpace))
                 /\ ~x_items[i].img.present => x_out[k].Image = Str(<<>>)
                 /\ ~x_items[i].a.present => x_out[k].Link = Str(<<>>)

C11_Witness ==
  /\ x_pc = "done"
  /\ Len(x_items) = 2
  /\ ~x_items[1].h2.present
  /\ x_items[2] = Item(TextNode(<<" ", "T", " ">>), NoNode, NoNode)
  /\ x_out = << [Title |-> Str(<<"T">>), Image |-> Str(<<>>), Link |-> Str(<<>>)] >>

IsString(x) == x.kind = "str"

\* C22: every record extract returns maps Title, Image and Link to strings,
\* Title non-empty and Image and Link possibly empty, whatever the item's
\* sub-elements: absent, present with the src/href attribute, or present
\* without it.
C22_RecordsHoldStrings ==
  x_pc = "done" =>
    \A k \in DOMAIN x_out :
      /\ DOMAIN x_out[k] = {"Title", "Image", "Link"}
      /\ IsString(x_out[k].Title) /\ x_out[k].Title.v # <<>>
      /\ IsString(x_out[k].Image)
      /\ IsString(x_out[k].Link)

====
